---- MODULE Spec2Model ----
(***************************************************************************)
(* A model of pylib/middleman.py: the Middleman that blends the backends   *)
(* together (backend loading, the device cache, the lookups, the active    *)
(* option resolution and the "Apply to All" operations).                   *)
(*                                                                         *)
(* Python values: None is the empty tuple and any other optional value v   *)
(* is the one-element tuple <<v>> (see None and Some); a dictionary is a   *)
(* function on its keys, or a sequence of entries where the iteration      *)
(* order of its keys matters; a list is a sequence.  An object that the    *)
(* code shares by reference (a device of the cache) carries its identity   *)
(* in the field oid.                                                       *)
(***************************************************************************)
EXTENDS Integers, Sequences, FiniteSets, TLC

VARIABLES
    BACKEND_NAMES,          \* registry: the backend ids, in the order of the dictionary's keys
    TROUBLESHOOT_MODULES,   \* registry: backend id -> troubleshoot routine
    backends,               \* self.backends: list of initialized Backend objects
    bad_init,               \* self.bad_init: list of Backend objects whose init() was falsy
    not_installed,          \* self.not_installed: list of backend ids
    troubleshooters,        \* self.troubleshooters: backend id -> routine
    import_errors,          \* self.import_errors: backend id -> diagnostic string
    device_cache,           \* self.device_cache: list of DeviceItem objects
    inits,                  \* number of init() calls made so far
    gen,                    \* number of rounds in which the backends were asked for their devices
    call                    \* the last call made on the Middleman: what it was given, did and returned

vars == <<BACKEND_NAMES, TROUBLESHOOT_MODULES, backends, bad_init, not_installed,
          troubleshooters, import_errors, device_cache, inits, gen, call>>

registry == <<BACKEND_NAMES, TROUBLESHOOT_MODULES>>
loaded == <<backends, bad_init, not_installed, troubleshooters, import_errors, inits>>

(***************************************************************************)
(* Bounds of the model.                                                    *)
(***************************************************************************)
MaxInit == 2        \* init() calls in one behaviour
MaxRunning == 2     \* running backends, where their devices are modelled
MaxGen == 2         \* rounds of backend device queries in one behaviour
MaxNeeded == 1      \* largest colours_needed given to set_bulk_option

BackendIds == {"openrazer", "dummy"}

(***************************************************************************)
(* Python values.                                                          *)
(***************************************************************************)
None == <<>>
Some(v) == <<v>>

Range(s) == {s[i] : i \in DOMAIN s}

\* d[k] = v on a dictionary d
DictSet(d, k, v) == [x \in (DOMAIN d) \cup {k} |-> IF x = k THEN v ELSE d[x]]

EmptyDict == [x \in {} |-> None]

\* The orders in which the keys of a dictionary over the ids S can come.
KeyOrders(S) ==
    {s \in UNION {[1..n -> S] : n \in 0..Cardinality(S)} :
        \A i, j \in DOMAIN s : i # j => s[i] # s[j]}

(***************************************************************************)
(* Backend loading.                                                        *)
(***************************************************************************)
\* How the load of one backend module goes: the constructor raises, init()
\* raises, or init() returns.  A backend id with no entry in
\* BACKEND_MODULES raises KeyError inside the first try block, which the
\* code handles as any other constructor fault ("ctor_Exception").
Outcomes == {"ctor_ImportError", "ctor_Exception",
             "init_ImportError", "init_Exception",
             "init_falsy", "init_truthy"}

\* The version that the backend with an id reports.
Version(backend_id) == "v-" \o backend_id

\* A Backend object: its backend_id, its version and the init() call that
\* constructed it.
BackendObject(backend_id, n) ==
    [backend_id |-> backend_id, version |-> Version(backend_id), inst |-> n]

\* common.get_exception_as_string(e)
get_exception_as_string(e) == "Exception: " \o e

\* The Middleman's fields that init() writes, with how far the call got.
LoadState == [backends |-> backends, bad_init |-> bad_init,
              not_installed |-> not_installed,
              troubleshooters |-> troubleshooters,
              import_errors |-> import_errors,
              attempted |-> <<>>, raised |-> None]

\* The first try block of _load_backend_module.
LoadTry(st, backend_id, o, n) ==
    CASE o = "init_truthy" ->
            [st EXCEPT !.backends = Append(@, BackendObject(backend_id, n))]
      [] o = "init_falsy" ->
            [st EXCEPT !.bad_init = Append(@, BackendObject(backend_id, n))]
      [] o \in {"ctor_ImportError", "init_ImportError"} ->
            [st EXCEPT !.not_installed = Append(@, backend_id)]
      [] OTHER ->
            [st EXCEPT !.import_errors =
                DictSet(@, backend_id, get_exception_as_string(o))]

\* The second try block of _load_backend_module: the lookup in
\* TROUBLESHOOT_MODULES raises KeyError for a missing key, and the handler
\* is for NameError only.
LoadTroubleshooter(st, backend_id) ==
    IF backend_id \in DOMAIN TROUBLESHOOT_MODULES
    THEN [st EXCEPT !.troubleshooters =
            DictSet(@, backend_id, TROUBLESHOOT_MODULES[backend_id])]
    ELSE [st EXCEPT !.raised = Some("KeyError")]

_load_backend_module(st, backend_id, o, n) ==
    LoadTroubleshooter(
        LoadTry([st EXCEPT !.attempted = Append(@, backend_id)], backend_id, o, n),
        backend_id)

\* for backend_id in BACKEND_NAMES.keys(): _load_backend_module(backend_id)
RECURSIVE LoadFrom(_, _, _, _)
LoadFrom(st, i, outcome, n) ==
    IF i > Len(BACKEND_NAMES) \/ st.raised # None
    THEN st
    ELSE LoadFrom(_load_backend_module(st, BACKEND_NAMES[i],
                                       outcome[BACKEND_NAMES[i]], n),
                  i + 1, outcome, n)

\* init(), the load of each backend going one of the ways in Ways.
InitCall(Ways) ==
    /\ inits < MaxInit
    /\ \E outcome \in [Range(BACKEND_NAMES) -> Ways] :
         LET st == LoadFrom(LoadState, 1, outcome, inits + 1) IN
         /\ backends' = st.backends
         /\ bad_init' = st.bad_init
         /\ not_installed' = st.not_installed
         /\ troubleshooters' = st.troubleshooters
         /\ import_errors' = st.import_errors
         /\ inits' = inits + 1
         /\ call' = [op |-> "init", outcome |-> outcome,
                     attempted |-> st.attempted, raised |-> st.raised]
    /\ UNCHANGED <<registry, device_cache, gen>>

init == InitCall(Outcomes)

\* init() where every backend loads; the devices are modelled for up to
\* MaxRunning running backends.
init_running ==
    /\ Len(backends) + Len(BACKEND_NAMES) <= MaxRunning
    /\ InitCall({"init_truthy"})

\* A value that a method returned, with its Python type.
PyList(l) == [type |-> "list", value |-> l]
PyStr(x) == [type |-> "str", value |-> x]
PyNone == [type |-> "NoneType", value |-> None]
PyDeviceItem(d) == [type |-> "DeviceItem", value |-> d]
PyBool(b) == [type |-> "bool", value |-> b]

(***************************************************************************)
(* Lookups of the running backends.                                        *)
(***************************************************************************)
\* The ids that are looked up: the known backends and an unknown one.
LookupIds == BackendIds \cup {"unknown"}

\* for module in self.backends: if module.backend_id == backend_id: return module
RECURSIVE BackendFrom(_, _)
BackendFrom(backend_id, i) ==
    IF i > Len(backends) THEN None
    ELSE IF backends[i].backend_id = backend_id THEN Some(backends[i])
    ELSE BackendFrom(backend_id, i + 1)

get_backend(backend_id) == BackendFrom(backend_id, 1)

\* for module in self.backends: if module.backend_id == backend_id: return True
RECURSIVE RunningFrom(_, _)
RunningFrom(backend_id, i) ==
    IF i > Len(backends) THEN FALSE
    ELSE IF backends[i].backend_id = backend_id THEN TRUE
    ELSE RunningFrom(backend_id, i + 1)

is_backend_running(backend_id) == RunningFrom(backend_id, 1)

\* for module in self.backends: versions[module.backend_id] = module.version
RECURSIVE VersionsOfLoaded(_, _)
VersionsOfLoaded(versions, i) ==
    IF i > Len(backends \o bad_init) THEN versions
    ELSE VersionsOfLoaded(DictSet(versions, (backends \o bad_init)[i].backend_id,
                                  (backends \o bad_init)[i].version), i + 1)

RECURSIVE VersionsFrom(_, _)
VersionsFrom(versions, i) ==
    IF i > Len(backends) THEN versions
    ELSE VersionsFrom(DictSet(versions, backends[i].backend_id, backends[i].version),
                      i + 1)

get_versions == VersionsFrom(EmptyDict, 1)

(***************************************************************************)
(* Troubleshooting.                                                        *)
(***************************************************************************)
\* What a troubleshooting routine does when it is called: it returns its
\* results or None, or it raises.
Routines == {"return_list", "return_None", "raise_KeyError", "raise_Exception"}

\* self.troubleshooters[backend](i18n, fn_progress_set_max, fn_progress_advance):
\* the value returned or the exception raised, by the lookup or by the
\* routine.
Troubleshooter(backend, routine) ==
    IF ~(backend \in DOMAIN troubleshooters)
    THEN [called |-> FALSE, raised |-> Some("KeyError"), value |-> PyNone]
    ELSE CASE routine = "return_list" ->
                [called |-> TRUE, raised |-> None, value |-> PyList(<<"result">>)]
           [] routine = "return_None" ->
                [called |-> TRUE, raised |-> None, value |-> PyNone]
           [] routine = "raise_KeyError" ->
                [called |-> TRUE, raised |-> Some("KeyError"), value |-> PyNone]
           [] OTHER ->
                [called |-> TRUE, raised |-> Some("Exception"), value |-> PyNone]

\* try: return ... / except KeyError: return None /
\* except Exception as e: return common.get_exception_as_string(e)
troubleshoot ==
    /\ \E backend \in LookupIds, routine \in Routines :
         LET t == Troubleshooter(backend, routine) IN
         call' = [op |-> "troubleshoot", backend |-> backend,
                  routine |-> IF t.called THEN Some(routine) ELSE None,
                  ret |-> IF t.raised = None THEN t.value
                          ELSE IF t.raised = Some("KeyError") THEN PyNone
                          ELSE PyStr(get_exception_as_string(t.raised[1])),
                  raised |-> None]
    /\ UNCHANGED <<registry, loaded, device_cache, gen>>

\* init() where every backend is installed: its init() returns true or
\* false.
init_installed ==
    /\ Len(backends) + Len(BACKEND_NAMES) <= MaxRunning
    /\ InitCall({"init_falsy", "init_truthy"})

(***************************************************************************)
(* Restart of a backend.                                                   *)
(***************************************************************************)
\* What the restart() of a backend returns.
RestartResults == {PyBool(TRUE), PyBool(FALSE)}

\* for module in self.backends: if module.backend_id == backend: return module.restart()
\* The backends whose restart() ran, by position, and the value returned.
RECURSIVE RestartAllFrom(_, _, _)
RestartAllFrom(backend, result, i) ==
    IF i > Len(backends) THEN [restarted |-> <<>>, ret |-> None]
    ELSE LET rest == RestartAllFrom(backend, result, i + 1) IN
         IF backends[i].backend_id = backend
         THEN [restarted |-> <<i>> \o rest.restarted, ret |-> Some(result)]
         ELSE rest

RECURSIVE RestartFrom(_, _, _)
RestartFrom(backend, result, i) ==
    IF i > Len(backends) THEN [restarted |-> <<>>, ret |-> None]
    ELSE IF backends[i].backend_id = backend
         THEN [restarted |-> <<i>>, ret |-> Some(result)]
         ELSE RestartFrom(backend, result, i + 1)

restart ==
    /\ \E backend \in LookupIds, result \in RestartResults :
         LET r == RestartFrom(backend, result, 1) IN
         call' = [op |-> "restart", backend |-> backend, result |-> result,
                  backends |-> backends, pre |-> device_cache,
                  restarted |-> r.restarted, ret |-> r.ret]
    /\ UNCHANGED <<registry, loaded, device_cache, gen>>

(***************************************************************************)
(* Unsupported devices.                                                    *)
(***************************************************************************)
\* The lists that a backend's get_unsupported_devices() may return.
UnsupportedLists == {<<>>, <<"1532:0001">>, <<"1532:0002", "1532:0003">>}

\* for backend in self.backends:
\*     unknown_devices = unknown_devices + backend.get_unsupported_devices()
RECURSIVE UnsupportedFromSecond(_, _, _)
UnsupportedFromSecond(unknown_devices, answers, i) ==
    IF i > Len(backends) THEN unknown_devices
    ELSE UnsupportedFromSecond(IF i = 1 THEN unknown_devices
                               ELSE unknown_devices \o answers[i],
                               answers, i + 1)

RECURSIVE UnsupportedFrom(_, _, _)
UnsupportedFrom(unknown_devices, answers, i) ==
    IF i > Len(backends) THEN unknown_devices
    ELSE UnsupportedFrom(unknown_devices \o answers[i], answers, i + 1)

get_unsupported_devices ==
    /\ \E answers \in [1..Len(backends) -> UnsupportedLists] :
         call' = [op |-> "get_unsupported_devices", answers |-> answers,
                  queried |-> backends,
                  ret |-> PyList(UnsupportedFrom(<<>>, answers, 1))]
    /\ UNCHANGED <<registry, loaded, device_cache, gen>>

(***************************************************************************)
(* Devices.                                                                *)
(***************************************************************************)

Placeholder == "#00FF00"

\* The options of the zones of the devices the backends report.  An option
\* is a dictionary; toggles and sliders have no "parameters" key.
Brightness ==
    [id |-> "brightness", type |-> "slider", active |-> TRUE, colours |-> <<>>]
Static(active, colours) ==
    [id |-> "static", type |-> "effect", active |-> active, colours |-> colours,
     parameters |-> <<>>]
Wave(active) ==
    [id |-> "wave", type |-> "effect", active |-> active, colours |-> <<>>,
     parameters |-> <<[id |-> "left", data |-> Some("1"), active |-> FALSE, colours |-> <<>>],
                      [id |-> "right", data |-> Some("2"), active |-> TRUE, colours |-> <<>>]>>]
Breath(active) ==
    [id |-> "breath", type |-> "effect", active |-> active, colours |-> <<>>,
     parameters |-> <<[id |-> "single", data |-> Some("single"), active |-> TRUE,
                       colours |-> <<"#0000FF">>]>>]

\* A zone_options dictionary is the sequence of its entries, in key order.
DummyKeyboard ==
    [name |-> "Dummy Keyboard", serial |-> "DUMMY0001",
     form_factor |-> [id |-> "keyboard"],
     zone_options |-> <<[zone |-> "main",
                         options |-> <<Brightness, Static(TRUE, <<"#FF0000">>), Wave(FALSE)>>]>>]
DummyMouse ==
    [name |-> "Dummy Mouse", serial |-> "DUMMY0002",
     form_factor |-> [id |-> "mouse"],
     zone_options |-> <<[zone |-> "logo",
                         options |-> <<Static(FALSE, <<>>), Breath(TRUE)>>],
                        [zone |-> "scroll",
                         options |-> <<Wave(TRUE)>>]>>]

\* A device that plays no effect.
DummyHeadset ==
    [name |-> "Dummy Headset", serial |-> "DUMMY0003",
     form_factor |-> [id |-> "headset"],
     zone_options |-> <<[zone |-> "main",
                         options |-> <<Brightness, Static(FALSE, <<"#00FFFF">>)>>]>>]

DeviceTemplates == {DummyKeyboard, DummyMouse, DummyHeadset}

\* The device lists a backend may report.
DeviceLists == {<<>>, <<DummyKeyboard>>, <<DummyMouse, DummyHeadset, DummyKeyboard>>}

\* What a backend's get_devices() may return: a list, or something else.
GetDevicesAnswers == {PyList(l) : l \in DeviceLists} \cup {PyStr("error")}

\* The DeviceItem object a backend makes of a template: a new object each
\* time, owned by the backend at position i of self.backends.
DeviceItem(t, g, i, k) ==
    [oid |-> <<g, i, k>>, uid |-> k, backend |-> backends[i].backend_id,
     name |-> t.name, serial |-> t.serial, form_factor |-> t.form_factor,
     zone_options |-> t.zone_options]

DeviceItems(l, g, i) == [k \in 1..Len(l) |-> DeviceItem(l[k], g, i, k)]

\* The loop of _reload_device_cache_if_empty over self.backends.
RECURSIVE CacheFromUntilNotList(_, _, _, _)
CacheFromUntilNotList(cache, i, answers, g) ==
    IF i > Len(backends) \/ answers[i].type # "list"
    THEN cache
    ELSE CacheFromUntilNotList(cache \o DeviceItems(answers[i].value, g, i),
                               i + 1, answers, g)

RECURSIVE CacheFrom(_, _, _, _)
CacheFrom(cache, i, answers, g) ==
    IF i > Len(backends)
    THEN cache
    ELSE CacheFrom(IF answers[i].type = "list"
                   THEN cache \o DeviceItems(answers[i].value, g, i)
                   ELSE cache,
                   i + 1, answers, g)

\* if self.device_cache: the truth of a list
CacheLoadedButOne(cache) == Len(cache) > 1

CacheLoaded(cache) == cache # <<>>

\* _reload_device_cache_if_empty() on the cache given: the cache after it
\* and the backends it asked.
_reload_device_cache_if_empty(cache, answers) ==
    IF CacheLoaded(cache)
    THEN [device_cache |-> cache, queried |-> <<>>]
    ELSE [device_cache |-> CacheFrom(cache, 1, answers, gen + 1),
          queried |-> backends]

\* The backends answer a round of get_devices() calls, if one is made.
AnswersFor(cache) ==
    IF CacheLoaded(cache) THEN {<<>>} ELSE [1..Len(backends) -> GetDevicesAnswers]

NextGen(cache) == IF cache = <<>> THEN gen ELSE gen + 1

get_devices ==
    /\ gen < MaxGen
    /\ \E answers \in AnswersFor(device_cache) :
         LET r == _reload_device_cache_if_empty(device_cache, answers) IN
         /\ device_cache' = r.device_cache
         /\ gen' = IF r.queried = <<>> THEN gen ELSE NextGen(r.device_cache)
         /\ call' = [op |-> "get_devices", pre |-> device_cache,
                     answers |-> answers, queried |-> r.queried,
                     ret |-> r.device_cache]
    /\ UNCHANGED <<registry, loaded>>

\* self.device_cache = []
ClearedCacheKept == device_cache

ClearedCache == <<>>

reload_device_cache ==
    /\ gen < MaxGen
    /\ \E answers \in AnswersFor(ClearedCache) :
         LET r == _reload_device_cache_if_empty(ClearedCache, answers) IN
         /\ device_cache' = r.device_cache
         /\ gen' = NextGen(r.device_cache)
         /\ call' = [op |-> "reload_device_cache", answers |-> answers,
                     queried |-> r.queried,
                     poisoned |-> (device_cache # <<>> /\ device_cache[1].name = "POSION")]
    /\ UNCHANGED <<registry, loaded>>

\* The caller changes the first item of the list that get_devices() returned.
poison ==
    /\ device_cache # <<>>
    /\ device_cache[1].name # "POSION"
    /\ device_cache' = [device_cache EXCEPT ![1].name = "POSION"]
    /\ call' = [op |-> "poison"]
    /\ UNCHANGED <<registry, loaded, gen>>

(***************************************************************************)
(* The Middleman after __init__, under any registry.                       *)
(***************************************************************************)
Init ==
    /\ BACKEND_NAMES \in KeyOrders(BackendIds)
    /\ TROUBLESHOOT_MODULES \in
         UNION {[S -> {"troubleshoot"}] : S \in SUBSET BackendIds}
    /\ backends = <<>>
    /\ bad_init = <<>>
    /\ not_installed = <<>>
    /\ troubleshooters = EmptyDict
    /\ import_errors = EmptyDict
    /\ device_cache = <<>>
    /\ inits = 0
    /\ gen = 0
    /\ call = [op |-> "__init__"]

(***************************************************************************)
(* Device lookups.                                                         *)
(***************************************************************************)
\* What a backend may answer when asked for the device with a name or a
\* serial: a new DeviceItem for a device it has with that key, or None.
LookupAnswers(field, key, i) ==
    {PyNone} \cup
    {PyDeviceItem(DeviceItem(t, 0, i, 1)) : t \in {u \in DeviceTemplates : u[field] = key}}

\* for backend in self.backends: ... if isinstance(device, Backend.DeviceItem): return device
RECURSIVE LastDeviceItem(_, _)
LastDeviceItem(answers, i) ==
    IF i > Len(backends)
    THEN [ret |-> None, queried |-> backends]
    ELSE LET rest == LastDeviceItem(answers, i + 1) IN
         IF rest.ret = None /\ answers[i].type = "DeviceItem"
         THEN [ret |-> Some(answers[i].value), queried |-> backends]
         ELSE rest

RECURSIVE FirstDeviceItem(_, _)
FirstDeviceItem(answers, i) ==
    IF i > Len(backends)
    THEN [ret |-> None, queried |-> backends]
    ELSE IF answers[i].type = "DeviceItem"
         THEN [ret |-> Some(answers[i].value), queried |-> SubSeq(backends, 1, i)]
         ELSE FirstDeviceItem(answers, i + 1)

\* The keys looked up: of a device that backends have, and of none.
DeviceNames == {"Dummy Keyboard", "Unknown"}
DeviceSerials == {"DUMMY0002", "UNKNOWN"}

LookupCall(op, field, keys) ==
    /\ \E key \in keys :
       \E answers \in {a \in [1..Len(backends) -> UNION {LookupAnswers(field, key, i) : i \in 1..Len(backends)}] :
                         \A i \in 1..Len(backends) : a[i] \in LookupAnswers(field, key, i)} :
         LET r == FirstDeviceItem(answers, 1) IN
         call' = [op |-> op, key |-> key, pre |-> device_cache,
                  answers |-> answers, queried |-> r.queried, ret |-> r.ret]
    /\ UNCHANGED <<registry, loaded, device_cache, gen>>

get_device_by_name == LookupCall("get_device_by_name", "name", DeviceNames)

get_device_by_serial == LookupCall("get_device_by_serial", "serial", DeviceSerials)

(***************************************************************************)
(* Devices of a form factor.                                               *)
(***************************************************************************)
FormFactors == {"keyboard", "mouse", "mousemat"}

\* for device in self.device_cache:
\*     if device.form_factor["id"] == form_factor_id: devices.append(device)
RECURSIVE FormFactorFirst(_, _, _, _)
FormFactorFirst(devices, cache, form_factor_id, i) ==
    IF i > Len(cache) \/ devices # <<>> THEN devices
    ELSE FormFactorFirst(IF cache[i].form_factor.id = form_factor_id
                         THEN Append(devices, cache[i])
                         ELSE devices,
                         cache, form_factor_id, i + 1)

RECURSIVE FormFactorFrom(_, _, _, _)
FormFactorFrom(devices, cache, form_factor_id, i) ==
    IF i > Len(cache) THEN devices
    ELSE FormFactorFrom(IF cache[i].form_factor.id = form_factor_id
                        THEN Append(devices, cache[i])
                        ELSE devices,
                        cache, form_factor_id, i + 1)

get_device_by_form_factor ==
    /\ gen < MaxGen
    /\ \E form_factor_id \in FormFactors, answers \in AnswersFor(device_cache) :
         LET r == _reload_device_cache_if_empty(device_cache, answers) IN
         /\ device_cache' = r.device_cache
         /\ gen' = IF r.queried = <<>> THEN gen ELSE NextGen(r.device_cache)
         /\ call' = [op |-> "get_device_by_form_factor",
                     form_factor_id |-> form_factor_id, pre |-> device_cache,
                     answers |-> answers, queried |-> r.queried,
                     ret |-> PyList(FormFactorFrom(<<>>, r.device_cache,
                                                   form_factor_id, 1))]
    /\ UNCHANGED <<registry, loaded>>

(***************************************************************************)
(* "Apply to All".                                                         *)
(***************************************************************************)
\* self.get_device_all(): the cached devices.
get_device_all == device_cache

\* What the backends answer to the state requests of one bulk call, in
\* turn: true, false, or an error detail.
ResultPlans == {<<PyBool(TRUE)>>,
                <<PyBool(FALSE), PyBool(TRUE)>>,
                <<PyStr("error"), PyBool(TRUE)>>}

\* self.set_device_state(...): the request goes to the owning backend, and
\* the backend's answer to it comes back.
set_device_state(backend, uid, serial, zone, option_id, option_data, colour_hex, n, plan) ==
    [request |-> [backend |-> backend, uid |-> uid, serial |-> serial, zone |-> zone,
                  option_id |-> option_id, option_data |-> option_data,
                  colour_hex |-> colour_hex],
     result |-> plan[((n - 1) % Len(plan)) + 1]]

\* str(result) of a result that is neither True nor False.
str(result) == IF result = None THEN "None" ELSE result.value

\* The message logged for a result.
ResultMessage(result) ==
    IF result = PyBool(TRUE) THEN "Request OK"
    ELSE IF result = PyBool(FALSE) THEN "Bad request!"
    ELSE "Error: " \o str(result)

\* for option in device["zone_options"][zone]: if option["id"] == option_id: ... break
\* The position of the option found, 0 when the zone is skipped.
RECURSIVE FindOption(_, _, _)
FindOption(options, option_id, k) ==
    IF k > Len(options) THEN 0
    ELSE IF options[k].id = option_id THEN k
    ELSE FindOption(options, option_id, k + 1)

\* while len(colour_hex) < colours_needed: colour_hex.append("#00FF00")
PadColoursOneShort(colour_hex, colours_needed) ==
    IF Len(colour_hex) + 1 < colours_needed
    THEN Append(colour_hex, Placeholder)
    ELSE colour_hex

RECURSIVE PadColours(_, _)
PadColours(colour_hex, colours_needed) ==
    IF Len(colour_hex) < colours_needed
    THEN PadColours(Append(colour_hex, Placeholder), colours_needed)
    ELSE colour_hex

\* One zone of one device in set_bulk_option.  colour_hex is the list of
\* the option found, not a copy of it: the append is to the option's list.
BulkOptionZone(st, d, z, option_id, option_data, colours_needed, plan) ==
    LET device == st.devices[d]
        zone == device.zone_options[z]
        k == FindOption(zone.options, option_id, 1)
    IN  IF k = 0 THEN st
        ELSE LET colour_hex == PadColours(zone.options[k].colours, colours_needed)
                 sent == set_device_state(device.backend, device.uid, device.serial,
                                          zone.zone, option_id, option_data, colour_hex,
                                          Len(st.applied) + 1, plan)
             IN  [devices |-> [st.devices EXCEPT
                                 ![d].zone_options[z].options[k].colours = colour_hex],
                  applied |-> Append(st.applied,
                                     [oid |-> device.oid, request |-> sent.request,
                                      result |-> sent.result,
                                      message |-> ResultMessage(sent.result)])]

\* for device in devices: for zone in device["zone_options"].keys(): ...
RECURSIVE BulkOptionFromUntilFailure(_, _, _, _, _, _, _)
BulkOptionFromUntilFailure(st, d, z, option_id, option_data, colours_needed, plan) ==
    IF \/ d > Len(st.devices)
       \/ /\ st.applied # <<>>
          /\ st.applied[Len(st.applied)].message # "Request OK"
    THEN st
    ELSE IF z > Len(st.devices[d].zone_options)
         THEN BulkOptionFromUntilFailure(st, d + 1, 1, option_id, option_data,
                                         colours_needed, plan)
         ELSE BulkOptionFromUntilFailure(
                BulkOptionZone(st, d, z, option_id, option_data, colours_needed, plan),
                d, z + 1, option_id, option_data, colours_needed, plan)

RECURSIVE BulkOptionFrom(_, _, _, _, _, _, _)
BulkOptionFrom(st, d, z, option_id, option_data, colours_needed, plan) ==
    IF d > Len(st.devices) THEN st
    ELSE IF z > Len(st.devices[d].zone_options)
         THEN BulkOptionFrom(st, d + 1, 1, option_id, option_data, colours_needed, plan)
         ELSE BulkOptionFrom(
                BulkOptionZone(st, d, z, option_id, option_data, colours_needed, plan),
                d, z + 1, option_id, option_data, colours_needed, plan)

\* The options and parameters that "Apply to All" is given, and one that
\* no device offers.
BulkOptions == {<<"static", None>>, <<"wave", Some("1")>>, <<"spectrum", None>>}

set_bulk_option ==
    /\ \E o \in BulkOptions, colours_needed \in 0..MaxNeeded, plan \in ResultPlans :
         LET st == BulkOptionFrom([devices |-> get_device_all, applied |-> <<>>],
                                  1, 1, o[1], o[2], colours_needed, plan) IN
         /\ device_cache' = st.devices
         /\ call' = [op |-> "set_bulk_option", option_id |-> o[1], option_data |-> o[2],
                     colours_needed |-> colours_needed, pre |-> device_cache,
                     applied |-> st.applied]
    /\ UNCHANGED <<registry, loaded, gen>>

(***************************************************************************)
(* The active option of a device.                                          *)
(***************************************************************************)
\* The local variables of _get_current_device_option as it starts.
OptionVars == [option_id |-> None, option_data |-> None, colour_hex |-> Some(<<>>),
               found_option |-> None, param |-> None]

\* The two "continue" tests on an option.
OptionSkippedByActiveOnly(option) == ~("active" \in DOMAIN option)

OptionSkipped(option) ==
    \/ ~("active" \in DOMAIN option)
    \/ ~(option.type = "effect")

\* len(option["parameters"]) == 0: break
OptionBreaks(option) ==
    /\ "parameters" \in DOMAIN option
    /\ Len(option.parameters) = 0

\* for param in option["parameters"]: if param["active"] == True: ...
RECURSIVE ParamsFrom(_, _, _)
ParamsFrom(v, parameters, j) ==
    IF j > Len(parameters) THEN v
    ELSE ParamsFrom(IF parameters[j].active = TRUE
                    THEN [v EXCEPT !.param = Some(parameters[j]),
                                   !.option_data = parameters[j].data,
                                   !.colour_hex = Some(parameters[j].colours)]
                    ELSE [v EXCEPT !.param = Some(parameters[j])],
                    parameters, j + 1)

\* The body of the loop over the options for an active effect option; an
\* option without a "parameters" key raises KeyError, which is passed over.
OptionFound(v, option) ==
    LET w == [v EXCEPT !.found_option = Some(option), !.option_id = Some(option.id)]
    IN  IF "parameters" \in DOMAIN option
        THEN ParamsFrom(w, option.parameters, 1)
        ELSE w

\* for option in device["zone_options"][zone]: ...
RECURSIVE OptionsFrom(_, _, _)
OptionsFrom(v, options, k) ==
    IF k > Len(options) THEN v
    ELSE IF OptionSkipped(options[k]) \/ ~(options[k].active = TRUE)
         THEN OptionsFrom(v, options, k + 1)
         ELSE IF OptionBreaks(options[k])
              THEN OptionFound(v, options[k])
              ELSE OptionsFrom(OptionFound(v, options[k]), options, k + 1)

\* device["zone_options"][zone]
ZoneOptions(device, zone) ==
    LET z == CHOOSE i \in DOMAIN device.zone_options : device.zone_options[i].zone = zone
    IN  device.zone_options[z].options

\* device["zone_options"].keys()
ZoneKeys(device) == [i \in DOMAIN device.zone_options |-> device.zone_options[i].zone]

\* for zone in zones: ...
RECURSIVE ZonesFrom(_, _, _, _)
ZonesFrom(v, device, zones, i) ==
    IF i > Len(zones) THEN v
    ELSE ZonesFrom(OptionsFrom(v, ZoneOptions(device, zones[i]), 1), device, zones, i + 1)

\* _get_current_device_option(device, zone): [option_id, option_data, colour_hex]
_get_current_device_option(device, zone) ==
    LET zones == IF zone # None THEN <<zone[1]>> ELSE ZoneKeys(device)
        v == ZonesFrom(OptionVars, device, zones, 1)
    IN  IF v.found_option = None
        THEN <<None, None, None>>
        ELSE IF v.param = None
             THEN <<v.option_id, v.option_data, Some(v.found_option[1].colours)>>
             ELSE <<v.option_id, v.option_data, v.colour_hex>>

\* The devices on which the active option is resolved: one or two zones of
\* up to MaxOptions options, the option at each place being one of the
\* kinds below, with an id, colours and parameter data of its own.
MaxOptions == 2

OptionZones == <<"logo", "scroll">>
Digits == <<"1", "2", "3", "4">>

Param(id, j, active) ==
    [active |-> active, data |-> Some(id \o "/" \o Digits[j]),
     colours |-> <<"#" \o id \o "/" \o Digits[j]>>]

OptionsAt(id) ==
    {[id |-> id, type |-> "slider", active |-> TRUE, colours |-> <<"#" \o id>>],
     [id |-> id, type |-> "effect", colours |-> <<"#" \o id>>, parameters |-> <<>>],
     [id |-> id, type |-> "effect", active |-> FALSE, colours |-> <<"#" \o id>>,
      parameters |-> <<Param(id, 1, TRUE)>>],
     [id |-> id, type |-> "effect", active |-> TRUE, colours |-> <<"#" \o id>>,
      parameters |-> <<>>],
     [id |-> id, type |-> "effect", active |-> TRUE, colours |-> <<"#" \o id>>],
     [id |-> id, type |-> "effect", active |-> TRUE, colours |-> <<>>,
      parameters |-> <<Param(id, 1, FALSE)>>],
     [id |-> id, type |-> "effect", active |-> TRUE, colours |-> <<>>,
      parameters |-> <<Param(id, 1, TRUE), Param(id, 2, FALSE)>>]}

OptionLists(zone) ==
    UNION {{l \in [1..n -> UNION {OptionsAt(zone \o Digits[k]) : k \in 1..n}] :
              \A k \in 1..n : l[k] \in OptionsAt(zone \o Digits[k])} : n \in 1..MaxOptions}

OptionDevices ==
    {[zone_options |-> <<[zone |-> OptionZones[1], options |-> l]>>] :
        l \in OptionLists(OptionZones[1])}
    \cup
    {[zone_options |-> <<[zone |-> OptionZones[1], options |-> l[1]],
                         [zone |-> OptionZones[2], options |-> l[2]]>>] :
        l \in OptionLists(OptionZones[1]) \X OptionLists(OptionZones[2])}

\* The resolution reads its arguments only, so one application in a
\* behaviour covers it.
\* The active option of a device, over all its zones.
current_option_of_device ==
    /\ call.op = "__init__"
    /\ \E device \in OptionDevices :
         call' = [op |-> "_get_current_device_option", device |-> device, zone |-> None,
                  ret |-> _get_current_device_option(device, None)]
    /\ UNCHANGED <<registry, loaded, device_cache, gen>>

\* The active option of one zone of a device.
current_option_of_zone ==
    /\ call.op = "__init__"
    /\ \E device \in OptionDevices :
       \E zone \in Range(ZoneKeys(device)) :
         call' = [op |-> "_get_current_device_option", device |-> device,
                  zone |-> Some(zone),
                  ret |-> _get_current_device_option(device, Some(zone))]
    /\ UNCHANGED <<registry, loaded, device_cache, gen>>

(***************************************************************************)
(* "Apply to All" of a colour.                                             *)
(***************************************************************************)
\* The colours that "Apply to All" is given.
BulkColours == {"#FFFFFF"}

\* set_device_colour(device, zone, hex_value, colour_pos): the method prints
\* a notice and returns; the statements after the return never run.
set_device_colour(device, zone, hex_value, colour_pos) ==
    [ret |-> None, applied |-> <<>>]

\* for option in device["zone_options"][zone]: if option["id"] == option_id:
\* skip = False; break.  The test of option["colours"] that follows ends an
\* iteration that is over.
RECURSIVE skip(_, _, _)
skip(options, option_id, k) ==
    IF k > Len(options) THEN TRUE
    ELSE IF options[k].id = option_id THEN FALSE
    ELSE skip(options, option_id, k + 1)

\* One zone of one device in set_bulk_colour.
BulkColourZoneOfItsOwn(attempts, device, z, option_id, new_colour_hex) ==
    LET zone == device.zone_options[z].zone
        own == _get_current_device_option(device, Some(zone))[1]
    IN  IF own = None \/ skip(device.zone_options[z].options, own[1], 1)
        THEN attempts
        ELSE LET r == set_device_colour(device, zone, new_colour_hex, 0) IN
             Append(attempts, [oid |-> device.oid, zone |-> zone,
                               hex_value |-> new_colour_hex, colour_pos |-> 0,
                               applied |-> r.applied, result |-> r.ret,
                               message |-> ResultMessage(r.ret)])

BulkColourZone(attempts, device, z, option_id, new_colour_hex) ==
    LET zone == device.zone_options[z].zone IN
    IF skip(device.zone_options[z].options, option_id, 1)
    THEN attempts
    ELSE LET r == set_device_colour(device, zone, new_colour_hex, 0) IN
         Append(attempts, [oid |-> device.oid, zone |-> zone,
                           hex_value |-> new_colour_hex, colour_pos |-> 0,
                           applied |-> r.applied, result |-> r.ret,
                           message |-> ResultMessage(r.ret)])

\* for zone in device["zone_options"].keys(): ...
RECURSIVE BulkColourZones(_, _, _, _, _)
BulkColourZones(attempts, device, z, option_id, new_colour_hex) ==
    IF z > Len(device.zone_options) THEN attempts
    ELSE BulkColourZones(BulkColourZone(attempts, device, z, option_id, new_colour_hex),
                         device, z + 1, option_id, new_colour_hex)

\* for device in devices: option_id, ... = self._get_current_device_option(device);
\* if not option_id: continue
RECURSIVE BulkColourFrom(_, _, _, _)
BulkColourFrom(attempts, devices, d, new_colour_hex) ==
    IF d > Len(devices) THEN attempts
    ELSE LET option_id == _get_current_device_option(devices[d], None)[1] IN
         IF option_id = None \/ option_id = Some("")
         THEN BulkColourFrom(attempts, devices, d + 1, new_colour_hex)
         ELSE BulkColourFrom(
                BulkColourZones(attempts, devices[d], 1, option_id[1], new_colour_hex),
                devices, d + 1, new_colour_hex)

set_bulk_colour ==
    /\ \E new_colour_hex \in BulkColours :
         call' = [op |-> "set_bulk_colour", new_colour_hex |-> new_colour_hex,
                  pre |-> device_cache,
                  attempts |-> BulkColourFrom(<<>>, get_device_all, 1, new_colour_hex)]
    /\ UNCHANGED <<registry, loaded, device_cache, gen>>

\* The colour of one zone of a cached device is set.
colour_of_zone ==
    /\ \E d \in DOMAIN device_cache, hex_value \in BulkColours :
       \E zone \in Range(ZoneKeys(device_cache[d])) :
         LET r == set_device_colour(device_cache[d], zone, hex_value, 0) IN
         call' = [op |-> "set_device_colour", device |-> device_cache[d],
                  zone |-> zone, hex_value |-> hex_value, colour_pos |-> 0,
                  applied |-> r.applied, ret |-> r.ret]
    /\ UNCHANGED <<registry, loaded, device_cache, gen>>

\* Backend loading under every outcome.
NextLoad ==
    \/ init
    \/ troubleshoot

SpecLoad == Init /\ [][NextLoad]_vars

\* The Middleman, its device cache and its device lookups.
Next ==
    \/ init_running
    \/ get_devices
    \/ reload_device_cache
    \/ poison
    \/ get_device_by_name
    \/ get_device_by_serial

\* The registry as shipped gives every backend a troubleshooter.
InitDevices == Init /\ DOMAIN TROUBLESHOOT_MODULES = BackendIds

Spec == InitDevices /\ [][Next]_vars

\* The Middleman, its device cache and "Apply to All".
NextBulk ==
    \/ init_running
    \/ get_devices
    \/ set_bulk_option
    \/ set_bulk_colour
    \/ colour_of_zone

SpecBulk == InitDevices /\ [][NextBulk]_vars

\* The Middleman, its backends and what is asked of them.
NextQuery ==
    \/ init_installed
    \/ get_devices
    \/ restart
    \/ get_device_by_form_factor
    \/ get_unsupported_devices

SpecQuery == InitDevices /\ [][NextQuery]_vars

\* The active option resolution, on any of the devices of OptionDevices.
NextOption ==
    \/ current_option_of_device
    \/ current_option_of_zone

SpecOption == InitDevices /\ [][NextOption]_vars
(***************************************************************************)
(* Properties of backend loading (SpecLoad).                               *)
(***************************************************************************)
\* The lists and dictionaries of the Middleman that hold a backend id.
Classes(id) ==
    {c \in {"backends", "bad_init", "not_installed", "import_errors"} :
        CASE c = "backends" -> \E i \in DOMAIN backends : backends[i].backend_id = id
          [] c = "bad_init" -> \E i \in DOMAIN bad_init : bad_init[i].backend_id = id
          [] c = "not_installed" -> id \in Range(not_installed)
          [] OTHER -> id \in DOMAIN import_errors}

\* C1: init() completes without raising, attempts every registered backend,
\* and every backend whose construction and init() succeed is in the list
\* of running backends, whatever happened to the other backends.
C1_InitIsolatesFailures ==
    call.op = "init" =>
        /\ call.raised = None
        /\ call.attempted = BACKEND_NAMES
        /\ \A id \in Range(BACKEND_NAMES) :
             call.outcome[id] = "init_truthy" =>
                BackendObject(id, inits) \in Range(backends)

\* C2: after a single init(), each registered backend id is in exactly one
\* of not_installed, import_errors, bad_init and the running list, the one
\* that its load decides: a missing dependency at construction gives
\* not_installed, another fault of the constructor or of init() gives
\* import_errors with a diagnostic string, a falsy init() gives bad_init,
\* a truthy init() gives the running list.
C2_ClassifiedByOutcome ==
    (call.op = "init" /\ inits = 1) =>
        \A id \in Range(BACKEND_NAMES) :
            /\ Cardinality(Classes(id)) = 1
            /\ call.outcome[id] = "ctor_ImportError" => Classes(id) = {"not_installed"}
            /\ call.outcome[id] \in {"ctor_Exception", "init_Exception"} =>
                  /\ Classes(id) = {"import_errors"}
                  /\ import_errors[id] = get_exception_as_string(call.outcome[id])
            /\ call.outcome[id] = "init_falsy" => Classes(id) = {"bad_init"}
            /\ call.outcome[id] = "init_truthy" => Classes(id) = {"backends"}

\* C3: a backend that initialises in init() is running, its id is a key of
\* troubleshooters exactly when a routine is registered for it, and init()
\* completes also when no routine is registered for it.
C3_TroubleshooterOptional ==
    call.op = "init" =>
        \A id \in Range(call.attempted) :
            call.outcome[id] = "init_truthy" =>
                /\ BackendObject(id, inits) \in Range(backends)
                /\ id \in DOMAIN troubleshooters <=> id \in DOMAIN TROUBLESHOOT_MODULES
                /\ call.raised = None

(***************************************************************************)
(* Properties of the device cache and the lookups (Spec).                  *)
(***************************************************************************)
Oids(devices) == {devices[k].oid : k \in DOMAIN devices}

\* C4: get_devices() asks the running backends exactly when the cache is
\* empty as it is called: on a cache that holds devices it asks no backend
\* and returns the cached objects themselves, in their order; on an empty
\* cache it asks every running backend.
C4_QueriesIffCacheEmpty ==
    call.op = "get_devices" =>
        /\ call.pre # <<>> =>
              /\ call.queried = <<>>
              /\ call.ret = call.pre
              /\ device_cache = call.pre
        /\ call.pre = <<>> =>
              /\ call.queried = backends
              /\ call.ret = device_cache

C4_Witness ==
    /\ call.op = "get_devices"
    /\ Len(backends) = 2
    /\ Len(call.pre) > 1
    /\ call.pre[1].name = "POSION"
    /\ call.ret = call.pre

\* The devices that the answers of the backends list, backend by backend.
RECURSIVE Reported(_, _)
Reported(answers, i) ==
    IF i > Len(answers) THEN <<>>
    ELSE (IF answers[i].type = "list"
          THEN [k \in DOMAIN answers[i].value |->
                   [device |-> answers[i].value[k], backend |-> backends[i].backend_id]]
          ELSE <<>>)
         \o Reported(answers, i + 1)

\* C5: after reload_device_cache() the cache is the concatenation, in the
\* order of the running backends, of the device lists they return to the
\* call, whatever it held before, and holds none of the objects it held
\* before.
C5_ReloadIsClearAndRepopulate ==
    [][call'.op = "reload_device_cache" =>
        LET reported == Reported(call'.answers, 1) IN
        /\ call'.queried = backends
        /\ Len(device_cache') = Len(reported)
        /\ \A k \in DOMAIN device_cache' :
             /\ device_cache'[k].name = reported[k].device.name
             /\ device_cache'[k].serial = reported[k].device.serial
             /\ device_cache'[k].form_factor = reported[k].device.form_factor
             /\ device_cache'[k].zone_options = reported[k].device.zone_options
             /\ device_cache'[k].backend = reported[k].backend
        /\ Oids(device_cache') \cap Oids(device_cache) = {}]_vars

C5_Witness ==
    /\ call.op = "reload_device_cache"
    /\ call.poisoned
    /\ Len(device_cache) > 1
    /\ \E i \in DOMAIN call.answers : call.answers[i].type # "list"

\* C6: get_device_by_name and get_device_by_serial ask the running backends
\* in their order, return the first answer that is not None, or None when
\* every backend answers None, and leave the device cache as it was.
C6_LookupFirstMatch ==
    call.op \in {"get_device_by_name", "get_device_by_serial"} =>
        LET hits == {i \in DOMAIN call.answers : call.answers[i].type # "NoneType"} IN
        /\ device_cache = call.pre
        /\ hits = {} => call.ret = None /\ call.queried = backends
        /\ hits # {} =>
              LET first == CHOOSE i \in hits : \A j \in hits : i <= j IN
              /\ call.ret = Some(call.answers[first].value)
              /\ call.queried = SubSeq(backends, 1, first)

C6_Witness ==
    /\ call.op = "get_device_by_serial"
    /\ device_cache # <<>>
    /\ Len(call.answers) = 2
    /\ call.answers[1].type = "NoneType"
    /\ call.answers[2].type = "DeviceItem"
    /\ call.ret = Some(call.answers[2].value)

\* The zones of the cached devices that offer the option of the last call.
Offering(devices, option_id) ==
    {p \in UNION {{<<d, z>> : z \in DOMAIN devices[d].zone_options} : d \in DOMAIN devices} :
        \E k \in DOMAIN devices[p[1]].zone_options[p[2]].options :
            devices[p[1]].zone_options[p[2]].options[k].id = option_id}

\* The colours of the first option with the id in a zone.
ExistingColours(options, option_id) ==
    LET k == CHOOSE i \in DOMAIN options :
                /\ options[i].id = option_id
                /\ \A j \in DOMAIN options : options[j].id = option_id => i <= j
    IN  options[k].colours

\* c is the colours e followed by placeholders up to n entries.
PaddedTo(c, e, n) ==
    /\ Len(c) = IF Len(e) < n THEN n ELSE Len(e)
    /\ \A j \in DOMAIN c : c[j] = IF j <= Len(e) THEN e[j] ELSE Placeholder

\* The requests of the last call for a zone of a device.
RequestsFor(device, zone) ==
    {n \in DOMAIN call.applied :
        /\ call.applied[n].oid = device.oid
        /\ call.applied[n].request.zone = zone}

\* C10: set_bulk_option sends, for every zone of every cached device that
\* offers an option with the id, exactly one state request to the owning
\* backend, with the id, the data and the colours of that option followed
\* by placeholders up to colours_needed entries; a zone that does not
\* offer the id gets no request.
C10_BulkOptionRequests ==
    call.op = "set_bulk_option" =>
        /\ \A d \in DOMAIN call.pre :
           \A z \in DOMAIN call.pre[d].zone_options :
             LET device == call.pre[d]
                 zone == device.zone_options[z]
                 sent == RequestsFor(device, zone.zone)
             IN  IF <<d, z>> \in Offering(call.pre, call.option_id)
                 THEN /\ Cardinality(sent) = 1
                      /\ \A n \in sent :
                           LET r == call.applied[n].request IN
                           /\ r.backend = device.backend
                           /\ r.uid = device.uid
                           /\ r.serial = device.serial
                           /\ r.option_id = call.option_id
                           /\ r.option_data = call.option_data
                           /\ PaddedTo(r.colour_hex,
                                       ExistingColours(zone.options, call.option_id),
                                       call.colours_needed)
                 ELSE sent = {}
        /\ Len(call.applied) = Cardinality(Offering(call.pre, call.option_id))

C10_Witness ==
    /\ call.op = "set_bulk_option"
    /\ Len(call.applied) > 1
    /\ Len(call.pre) > 1
    /\ \E n \in DOMAIN call.applied :
         /\ call.applied[n].request.colour_hex # <<>>
         /\ call.applied[n].request.colour_hex[Len(call.applied[n].request.colour_hex)]
               = Placeholder
    /\ \E d \in DOMAIN call.pre : \E z \in DOMAIN call.pre[d].zone_options :
         ~(<<d, z>> \in Offering(call.pre, call.option_id))

(***************************************************************************)
(* Properties of the active option resolution (SpecOption).                *)
(***************************************************************************)
ResolvedOption == call.op = "_get_current_device_option"

\* The options in the scope of the last resolution, in iteration order.
RECURSIVE ScopeFrom(_, _, _)
ScopeFrom(device, zones, i) ==
    IF i > Len(zones) THEN <<>>
    ELSE ZoneOptions(device, zones[i]) \o ScopeFrom(device, zones, i + 1)

Scope ==
    ScopeFrom(call.device,
              IF call.zone = None THEN ZoneKeys(call.device) ELSE <<call.zone[1]>>, 1)

IsActiveEffect(option) ==
    /\ "active" \in DOMAIN option
    /\ option.type = "effect"
    /\ option.active = TRUE

ActiveEffects == {k \in DOMAIN Scope : IsActiveEffect(Scope[k])}

HasParameters(option) ==
    /\ "parameters" \in DOMAIN option
    /\ Len(option.parameters) > 0

\* C7: the option id returned is that of the active effect option that
\* comes last in the iteration over the scope.
C7_LastMatchWins ==
    (ResolvedOption /\ ActiveEffects # {}) =>
        LET last == CHOOSE k \in ActiveEffects : \A j \in ActiveEffects : j <= k
        IN  call.ret[1] = Some(Scope[last].id)

\* C8: the data and colours returned are those of the option whose id is
\* returned: of its own active parameter when it has parameters, and no
\* data with its own colour list when it has none.
C8_DataAndColoursOfReturnedOption ==
    (ResolvedOption /\ call.ret[1] # None) =>
        \A k \in DOMAIN Scope :
            Scope[k].id = call.ret[1][1] =>
                IF HasParameters(Scope[k])
                THEN LET own == {j \in DOMAIN Scope[k].parameters :
                                    Scope[k].parameters[j].active = TRUE}
                     IN  IF own # {}
                         THEN \E j \in own :
                                /\ call.ret[2] = Scope[k].parameters[j].data
                                /\ call.ret[3] = Some(Scope[k].parameters[j].colours)
                         ELSE /\ call.ret[2] = None
                              /\ call.ret[3] \in {Some(<<>>), Some(Scope[k].colours)}
                ELSE /\ call.ret[2] = None
                     /\ call.ret[3] = Some(Scope[k].colours)

\* C9, as the claim has it: with no active effect option in scope the
\* result is a null id, null data and an empty colour list.
C9_Original ==
    (ResolvedOption /\ ActiveEffects = {}) =>
        call.ret = <<None, None, Some(<<>>)>>

\* C9: with no active effect option in scope (the active options, if any,
\* are toggles or sliders, or the options have no "active" field) the
\* result is [None, None, None]: a null id, null data and null colours.
C9_NoActiveEffectGivesNones ==
    (ResolvedOption /\ ActiveEffects = {}) =>
        call.ret = <<None, None, None>>

C9_Witness ==
    /\ ResolvedOption
    /\ ActiveEffects = {}
    /\ \E k \in DOMAIN Scope : Scope[k].type = "slider" /\ Scope[k].active = TRUE
    /\ \E k \in DOMAIN Scope : ~("active" \in DOMAIN Scope[k])
    /\ call.ret = <<None, None, None>>

(***************************************************************************)
(* Properties of the bulk operations (SpecBulk).                           *)
(***************************************************************************)
\* The pairs of a set of <<device, zone>> positions, in cache order.
RECURSIVE InOrder(_)
InOrder(S) ==
    IF S = {} THEN <<>>
    ELSE LET m == CHOOSE p \in S :
                    \A q \in S : p[1] < q[1] \/ (p[1] = q[1] /\ p[2] <= q[2])
         IN  <<m>> \o InOrder(S \ {m})

\* The device object and the zone name at the positions given.
Targets(devices, pairs) ==
    [n \in DOMAIN pairs |->
        <<devices[pairs[n][1]].oid, devices[pairs[n][1]].zone_options[pairs[n][2]].zone>>]

\* The zones of the devices that offer the option that the resolution
\* over all the zones of the device returns.
OfferingCurrent(devices) ==
    {p \in UNION {{<<d, z>> : z \in DOMAIN devices[d].zone_options} : d \in DOMAIN devices} :
        LET option_id == _get_current_device_option(devices[p[1]], None)[1] IN
        /\ option_id # None
        /\ \E k \in DOMAIN devices[p[1]].zone_options[p[2]].options :
             devices[p[1]].zone_options[p[2]].options[k].id = option_id[1]}

\* C11: a bulk operation attempts every applicable zone of every cached
\* device, in cache order and in the order of the device's zones, whatever
\* the attempts before it answered (true, false or an error detail):
\* set_bulk_option every zone that offers the option id, set_bulk_colour
\* every zone that offers the device's current option.
C11_BulkNeverStops ==
    /\ call.op = "set_bulk_option" =>
         [n \in DOMAIN call.applied |->
             <<call.applied[n].oid, call.applied[n].request.zone>>]
           = Targets(call.pre, InOrder(Offering(call.pre, call.option_id)))
    /\ call.op = "set_bulk_colour" =>
         [n \in DOMAIN call.attempts |->
             <<call.attempts[n].oid, call.attempts[n].zone>>]
           = Targets(call.pre, InOrder(OfferingCurrent(call.pre)))

C11_Witness ==
    /\ call.op = "set_bulk_option"
    /\ Len(call.applied) > 2
    /\ call.applied[1].message # "Request OK"
    /\ call.applied[1].oid # call.applied[Len(call.applied)].oid

\* An option of the zone has colours of its own, or an active parameter
\* that has.
ColourBearing(options) ==
    \E k \in DOMAIN options :
        \/ options[k].colours # <<>>
        \/ /\ "parameters" \in DOMAIN options[k]
           /\ \E j \in DOMAIN options[k].parameters :
                options[k].parameters[j].colours # <<>>

\* The device has an active effect option in one of its zones.
PlaysEffect(device) ==
    \E z \in DOMAIN device.zone_options :
    \E k \in DOMAIN device.zone_options[z].options :
        IsActiveEffect(device.zone_options[z].options[k])

\* The attempts of the last set_bulk_colour on a zone of a device.
AttemptsOn(device, zone) ==
    {n \in DOMAIN call.attempts :
        call.attempts[n].oid = device.oid /\ call.attempts[n].zone = zone}

\* C12, as the claim has it: a device with no active effect option is
\* skipped, and on any other device the colour is set on each zone that
\* offers the current option resolved for that zone, or that has a
\* colour-bearing option.
C12_Original ==
    call.op = "set_bulk_colour" =>
        \A d \in DOMAIN call.pre : \A z \in DOMAIN call.pre[d].zone_options :
            LET device == call.pre[d]
                zone == device.zone_options[z]
                own == _get_current_device_option(device, Some(zone.zone))[1]
            IN  AttemptsOn(device, zone.zone) # {}
                  <=> /\ PlaysEffect(device)
                      /\ \/ own # None /\ ~skip(zone.options, own[1], 1)
                         \/ ColourBearing(zone.options)

\* C12: set_bulk_colour skips every cached device that has no active effect
\* option; on any other device it resolves the current option once, over
\* all the zones of the device, and calls the colour-set operation with the
\* device, the zone, the new colour and position 0 exactly once for each
\* zone that offers an option with that id, and for no other zone.
C12_BulkColourRequests ==
    call.op = "set_bulk_colour" =>
        \A d \in DOMAIN call.pre : \A z \in DOMAIN call.pre[d].zone_options :
            LET device == call.pre[d]
                zone == device.zone_options[z]
                made == AttemptsOn(device, zone.zone)
            IN  /\ ~PlaysEffect(device) => made = {}
                /\ IF <<d, z>> \in OfferingCurrent(call.pre)
                   THEN /\ Cardinality(made) = 1
                        /\ \A n \in made :
                             /\ call.attempts[n].hex_value = call.new_colour_hex
                             /\ call.attempts[n].colour_pos = 0
                   ELSE made = {}

C12_Witness ==
    /\ call.op = "set_bulk_colour"
    /\ Len(call.attempts) > 1
    /\ \E d \in DOMAIN call.pre : ~PlaysEffect(call.pre[d])
    /\ \E d \in DOMAIN call.pre : \E z \in DOMAIN call.pre[d].zone_options :
         /\ PlaysEffect(call.pre[d])
         /\ ColourBearing(call.pre[d].zone_options[z].options)
         /\ AttemptsOn(call.pre[d], call.pre[d].zone_options[z].zone) = {}

\* C13: set_device_colour returns False and sends nothing when the current
\* option of the zone has no colours; otherwise it sends one state request
\* for the zone with the current option, its data and its colours with the
\* colour at colour_pos replaced, and returns the result of that request.
C13_ColourSetForwards ==
    call.op = "set_device_colour" =>
        LET current == _get_current_device_option(call.device, Some(call.zone)) IN
        IF current[3] = None \/ current[3] = Some(<<>>)
        THEN /\ call.ret = PyBool(FALSE)
             /\ call.applied = <<>>
        ELSE /\ Len(call.applied) = 1
             /\ call.applied[1].request.zone = call.zone
             /\ call.applied[1].request.option_id = current[1][1]
             /\ call.applied[1].request.option_data = current[2]
             /\ call.applied[1].request.colour_hex
                  = [current[3][1] EXCEPT ![call.colour_pos + 1] = call.hex_value]
             /\ call.ret = call.applied[1].result

(***************************************************************************)
(* Properties of troubleshooting and of the backend lookups (SpecLoad).    *)
(***************************************************************************)
\* C14: troubleshoot returns None when no routine is registered for the
\* backend; when the registered routine raises, whatever the exception, it
\* returns the formatted error, never None; when the routine returns, it
\* returns the routine's result; and it never raises.
C14_TroubleshootTellsFailedFromUnavailable ==
    call.op = "troubleshoot" =>
        /\ call.raised = None
        /\ call.routine = None => call.ret = PyNone
        /\ call.routine \in {Some("raise_KeyError"), Some("raise_Exception")} =>
             /\ call.ret.type = "str"
             /\ call.ret # PyNone
        /\ call.routine = Some("return_list") => call.ret = PyList(<<"result">>)
        /\ call.routine = Some("return_None") => call.ret = PyNone

\* C15: for every id, get_backend returns a running backend with the id
\* when there is one and None otherwise; is_backend_running is true exactly
\* when get_backend is not None; and get_versions has the id as a key
\* exactly when the backend is running, with that backend's version.
C15_LookupsAgree ==
    \A id \in LookupIds :
        LET module == get_backend(id) IN
        /\ IF \E i \in DOMAIN backends : backends[i].backend_id = id
           THEN /\ module # None
                /\ module[1] \in Range(backends)
                /\ module[1].backend_id = id
           ELSE module = None
        /\ is_backend_running(id) <=> module # None
        /\ id \in DOMAIN get_versions <=> is_backend_running(id)
        /\ id \in DOMAIN get_versions => get_versions[id] = module[1].version
        /\ DOMAIN get_versions \subseteq LookupIds

C15_Witness ==
    /\ call.op = "init"
    /\ \E id \in BackendIds :
         /\ is_backend_running(id)
         /\ get_versions[id] = Version(id)
    /\ \E id \in BackendIds :
         /\ ~is_backend_running(id)
         /\ \E i \in DOMAIN bad_init : bad_init[i].backend_id = id
    /\ \E id \in BackendIds : id \in DOMAIN import_errors \/ id \in Range(not_installed)

(***************************************************************************)
(* Properties of what is asked of the backends (SpecQuery).                *)
(***************************************************************************)
\* C16: restart(id) calls restart() of one running backend with the id,
\* once, and returns what it returned; with no running backend of that id
\* it calls no backend and returns None; the list of running backends and
\* the device cache are as they were.
C16_RestartOneBackend ==
    call.op = "restart" =>
        /\ IF \E i \in DOMAIN call.backends : call.backends[i].backend_id = call.backend
           THEN /\ Len(call.restarted) = 1
                /\ call.backends[call.restarted[1]].backend_id = call.backend
                /\ call.ret = Some(call.result)
           ELSE /\ call.restarted = <<>>
                /\ call.ret = None
        /\ backends = call.backends
        /\ device_cache = call.pre

C16_Witness ==
    /\ call.op = "restart"
    /\ call.ret = Some(PyBool(FALSE))
    /\ Len(backends) = 2
    /\ backends[1].backend_id = backends[2].backend_id
    /\ device_cache # <<>>

RECURSIVE SumLen(_, _)
SumLen(lists, n) == IF n = 0 THEN 0 ELSE SumLen(lists, n - 1) + Len(lists[n])

\* C18: get_unsupported_devices asks the running backends, and only them,
\* and returns the concatenation of their lists in the order of the
\* running backends: its length is the sum of the lengths of the lists,
\* and it is the empty list when no backend is running.
C18_UnsupportedConcatenation ==
    call.op = "get_unsupported_devices" =>
        /\ call.queried = backends
        /\ Len(call.answers) = Len(backends)
        /\ call.ret.type = "list"
        /\ Len(call.ret.value) = SumLen(call.answers, Len(call.answers))
        /\ \A i \in DOMAIN call.answers : \A k \in DOMAIN call.answers[i] :
             call.ret.value[SumLen(call.answers, i - 1) + k] = call.answers[i][k]
        /\ backends = <<>> => call.ret = PyList(<<>>)

C18_Witness ==
    /\ call.op = "get_unsupported_devices"
    /\ Len(call.answers) = 2
    /\ Len(call.answers[1]) = 2
    /\ Len(call.answers[2]) = 1
    /\ bad_init # <<>>

(***************************************************************************)
(* Properties of the population of the cache (Spec) and of its use by      *)
(* set_bulk_option (SpecBulk).                                             *)
(***************************************************************************)
\* The cached devices that the backend at position i made, in cache order.
CachedOf(i) == SelectSeq(device_cache, LAMBDA d : d.oid[2] = i)

\* C19: when the running backends are asked for their devices, a backend
\* whose answer is not a list has no device in the cache, and the devices
\* of every backend that answers a list are all cached, in the order of
\* its list, after those of the backends before it.
C19_NotAListAddsNothing ==
    (call.op \in {"get_devices", "reload_device_cache"} /\ call.queried # <<>>) =>
        /\ \A i \in DOMAIN call.answers :
             IF call.answers[i].type = "list"
             THEN [k \in DOMAIN CachedOf(i) |-> CachedOf(i)[k].serial]
                    = [k \in DOMAIN call.answers[i].value |->
                          call.answers[i].value[k].serial]
             ELSE CachedOf(i) = <<>>
        /\ \A k \in DOMAIN device_cache :
             /\ device_cache[k].oid[2] \in DOMAIN call.answers
             /\ \A j \in DOMAIN device_cache :
                  k < j => device_cache[k].oid[2] <= device_cache[j].oid[2]

C19_Witness ==
    /\ call.op = "get_devices"
    /\ Len(call.answers) = 2
    /\ call.answers[1].type # "list"
    /\ call.answers[2].type = "list"
    /\ Len(device_cache) > 1

\* C20: set_bulk_option leaves the colour list of every option of every
\* zone of every cached device as it was before the call.
C20_BulkOptionReadsOnly ==
    call.op = "set_bulk_option" =>
        /\ Len(device_cache) = Len(call.pre)
        /\ \A d \in DOMAIN call.pre :
           \A z \in DOMAIN call.pre[d].zone_options :
           \A k \in DOMAIN call.pre[d].zone_options[z].options :
             device_cache[d].zone_options[z].options[k].colours
               = call.pre[d].zone_options[z].options[k].colours

(***************************************************************************)
(* Properties of repeated loading (Spec).                                  *)
(***************************************************************************)
\* C21: after any number of init() calls the list of running backends
\* holds at most one backend for an id, and a population of the cache that
\* follows holds the devices of one backend only for an id.
C21_OneBackendPerId ==
    /\ \A i, j \in DOMAIN backends :
         backends[i].backend_id = backends[j].backend_id => i = j
    /\ (call.op \in {"get_devices", "reload_device_cache"} /\ call.queried # <<>>) =>
         \A k, j \in DOMAIN device_cache :
            device_cache[k].backend = device_cache[j].backend =>
                device_cache[k].oid[2] = device_cache[j].oid[2]
====
